---- MODULE Spec2Model ----
(***************************************************************************)
(* PetScan (petscan_rs): the request parameter model (FormParameters) and  *)
(* the source orchestration / result combination engine (Platform).        *)
(*                                                                         *)
(*   src/src/form_parameters.rs   FormParameters                           *)
(*   src/src/platform.rs          Platform, Combination                    *)
(***************************************************************************)
EXTENDS Integers, Sequences, FiniteSets, TLC

VARIABLES
    pc,                 \* position of the operation under way
    params,             \* FormParameters.params : key -> value
    ns,                 \* FormParameters.ns : set of namespace ids
    query,              \* the query handed to outcome_from_query (decoded pairs, in order)
    base,               \* the FormParameters handed to rebase
    before,             \* FormParameters.params as it was when rebase was entered
    serialized,         \* what to_string returned (sequence of encoded pairs)
    can_run,            \* DataSource::can_run of every source, for this request
    candidate_sources,  \* Platform::run: candidate_sources
    next_source,        \* Platform::run: position of the for loop over candidate_sources
    ran,                \* number of times DataSource::run was invoked, per source
    returned,           \* the invocations of DataSource::run so far: <<name, value returned>>
    results,            \* Platform::run: results, name -> Option<PageList>
    available_sources,  \* the argument of get_combination
    combination,        \* the Combination that was built
    result,             \* Platform.result : Option<PageList>
    db,                 \* what db_params returned
    sql,                \* what get_label_sql returned (SQLtuple)
    data,               \* the body of a POST request (rocket::Data)
    outcome             \* FromData: what transform, then from_data, returned

vars == <<pc, params, ns, query, base, before, serialized, can_run, candidate_sources,
          next_source, ran, returned, results, available_sources, combination, result,
          db, sql,
          data, outcome>>

vars_form == <<ns, query, base, before, serialized>>
vars_run == <<can_run, candidate_sources, next_source, ran, returned>>
vars_out == <<db, sql>>
vars_post == <<data, outcome>>

(***************************************************************************)
(* Bounds of the model.                                                    *)
(***************************************************************************)
MaxOps == 2             \* operator nodes of an enumerated Combination tree
PageIds == {1, 2}       \* the pages a PageList may hold

(***************************************************************************)
(* Values.                                                                 *)
(***************************************************************************)
EmptyMap == [k \in {} |-> ""]
Range(f) == {f[k] : k \in DOMAIN f}

\* a plausible slip: an absent value is not entered in the map
insert_unless_none(m, k, v) ==
    IF v = [status |-> "None", pages |-> {}] THEN m
    ELSE [x \in DOMAIN m \cup {k} |-> IF x = k THEN v ELSE m[x]]

\* HashMap::insert
insert(m, k, v) == [x \in DOMAIN m \cup {k} |-> IF x = k THEN v ELSE m[x]]

\* Option<PageList>.  A panic (unwrap on None) is the third outcome.
NoneList == [status |-> "None", pages |-> {}]
Some(s) == [status |-> "Some", pages |-> s]
Panicked == [status |-> "Panic", pages |-> {}]
OptionPageList == {NoneList} \cup {Some(s) : s \in SUBSET PageIds}

\* enum Combination
CNone == [op |-> "None"]
Source(s) == [op |-> "Source", s |-> s]
Union(a, b) == [op |-> "Union", a |-> a, b |-> b]
Intersection(a, b) == [op |-> "Intersection", a |-> a, b |-> b]
Not(a, b) == [op |-> "Not", a |-> a, b |-> b]
BinaryOps == {"Union", "Intersection", "Not"}

(***************************************************************************)
(* PageList::union / intersection / difference take an Option<PageList>    *)
(* and return a Result.  PageList is not part of the sources at hand: an   *)
(* absent right operand is tolerated by union and difference, and          *)
(* intersection requires it.                                               *)
(***************************************************************************)
PageList_union(pages, r2) ==
    [ok |-> TRUE, pages |-> IF r2.status = "Some" THEN pages \cup r2.pages ELSE pages]
PageList_intersection(pages, r2) ==
    IF r2.status = "Some" THEN [ok |-> TRUE, pages |-> pages \cap r2.pages]
    ELSE [ok |-> FALSE, pages |-> pages]
PageList_difference(pages, r2) ==
    [ok |-> TRUE, pages |-> IF r2.status = "Some" THEN pages \ r2.pages ELSE pages]

(***************************************************************************)
(* Platform::has_param / get_param (platform.rs): set AND non-blank.       *)
(***************************************************************************)
Absent == [set |-> FALSE, v |-> ""]
Present(v) == [set |-> TRUE, v |-> v]

has_param(p, param) == param \in DOMAIN p /\ p[param] # ""
get_param(p, param) == IF has_param(p, param) THEN Present(p[param]) ELSE Absent

(***************************************************************************)
(* Strings.  A parameter value is a string; what the code does with one    *)
(* (trim, split, parse) is given for the strings of the model.             *)
(***************************************************************************)
\* str::trim
trim(s) ==
    CASE s = " Cat " -> "Cat"
      [] s = " " -> ""
      [] s = " en" -> "en"
      [] OTHER -> s

\* str::split(separator), collected
split(s, separator) ==
    CASE s = "Cat\nDog" /\ separator = "\n" -> <<"Cat", "Dog">>
      [] s = "Dog\nCat" /\ separator = "\n" -> <<"Dog", "Cat">>
      [] s = "Cat\nCat" /\ separator = "\n" -> <<"Cat", "Cat">>
      [] s = "Cat\nDog\nEel" /\ separator = "\n" -> <<"Cat", "Dog", "Eel">>
      [] s = " Cat \n\nDog" /\ separator = "\n" -> <<" Cat ", "", "Dog">>
      [] s = "Rat\nBat" /\ separator = "\n" -> <<"Rat", "Bat">>
      [] s = "Rat\nBat\nGnat" /\ separator = "\n" -> <<"Rat", "Bat", "Gnat">>
      [] s = "en,de" /\ separator = "," -> <<"en", "de">>
      [] s = "en, ,de" /\ separator = "," -> <<"en", " ", "de">>
      [] s = "fr,it" /\ separator = "," -> <<"fr", "it">>
      [] s = "nl, en" /\ separator = "," -> <<"nl", " en">>
      [] OTHER -> <<s>>

\* str::parse::<T>() : Result<T, _>
ParseOk(n) == [ok |-> TRUE, v |-> n]
ParseErr == [ok |-> FALSE, v |-> 0]
parse_u16(s) ==
    CASE s = "5" -> ParseOk(5)
      [] s = "0" -> ParseOk(0)
      [] OTHER -> ParseErr       \* "70000" overflows, "-1", "0.5", "abc", "" are invalid
parse_usize(s) ==
    CASE s = "5" -> ParseOk(5)
      [] s = "0" -> ParseOk(0)
      [] s = "70000" -> ParseOk(70000)
      [] OTHER -> ParseErr
parse_i64(s) ==
    CASE s = "5" -> ParseOk(5)
      [] s = "0" -> ParseOk(0)
      [] s = "70000" -> ParseOk(70000)
      [] s = "-1" -> ParseOk(-1)
      [] OTHER -> ParseErr
\* f32, in tenths
parse_f32(s) ==
    CASE s = "5" -> ParseOk(50)
      [] s = "0" -> ParseOk(0)
      [] s = "70000" -> ParseOk(700000)
      [] s = "-1" -> ParseOk(-10)
      [] s = "0.5" -> ParseOk(5)
      [] OTHER -> ParseErr

\* Option<number>
NoNumber == [set |-> FALSE, v |-> 0]
SomeNumber(n) == [set |-> TRUE, v |-> n]
PanicNumber == [set |-> FALSE, v |-> -999]

(***************************************************************************)
(* Platform: parameter helpers                                             *)
(***************************************************************************)
RECURSIVE trimmed_nonempty(_)
trimmed_nonempty(pieces) ==
    IF pieces = <<>> THEN <<>>
    ELSE LET t == trim(Head(pieces)) IN
         (IF t = "" THEN <<>> ELSE <<t>>) \o trimmed_nonempty(Tail(pieces))

get_param_as_vec(p, param, separator) ==
    LET g == get_param(p, param) IN
    IF g.set THEN trimmed_nonempty(split(g.v, separator)) ELSE <<>>

get_param_blank(p, param) ==
    LET g == get_param(p, param) IN IF g.set THEN g.v ELSE ""

get_param_default(p, param, default) ==
    LET g == get_param(p, param) IN
    LET ret == IF g.set THEN g.v ELSE default IN
    IF ret = "" THEN default ELSE ret

get_main_wiki(p) ==
    LET language == get_param(p, "language") IN
    LET project == get_param(p, "project") IN
    IF ~language.set \/ ~project.set THEN <<>>
    ELSE IF project.v = "wikipedia" THEN <<language.v, "wiki">>
    ELSE <<>>

(***************************************************************************)
(* Platform::db_params                                                     *)
(***************************************************************************)
\* .map(|x| x.parse::<T>().unwrap_or(d))
map_parse_or(g, parsed, d) ==
    IF ~g.set THEN NoNumber
    ELSE IF parsed.ok THEN SomeNumber(parsed.v) ELSE SomeNumber(d)

\* .map(|i| i.parse::<usize>().unwrap())
map_parse_unwrap(g, parsed) ==
    IF ~g.set THEN NoNumber
    ELSE IF parsed.ok THEN SomeNumber(parsed.v) ELSE PanicNumber

db_fields(p, nsv) ==
    [ combine |-> IF "combination" \in DOMAIN p
                  THEN (IF p["combination"] = "union" THEN p["combination"] ELSE "subset")
                  ELSE "subset",
      only_new_since |-> has_param(p, "only_new_since"),
      max_age |-> LET g == get_param(p, "max_age") IN map_parse_or(g, parse_i64(g.v), 0),
      before |-> get_param_blank(p, "before"),
      after |-> get_param_blank(p, "after"),
      templates_yes |-> get_param_as_vec(p, "templates_yes", "\n"),
      templates_any |-> get_param_as_vec(p, "templates_any", "\n"),
      templates_no |-> get_param_as_vec(p, "templates_no", "\n"),
      templates_yes_talk_page |-> has_param(p, "templates_use_talk_yes"),
      templates_any_talk_page |-> has_param(p, "templates_use_talk_any"),
      templates_no_talk_page |-> has_param(p, "templates_use_talk_no"),
      linked_from_all |-> get_param_as_vec(p, "outlinks_yes", "\n"),
      linked_from_any |-> get_param_as_vec(p, "outlinks_any", "\n"),
      linked_from_none |-> get_param_as_vec(p, "outlinks_no", "\n"),
      links_to_all |-> get_param_as_vec(p, "links_to_all", "\n"),
      links_to_any |-> get_param_as_vec(p, "links_to_any", "\n"),
      links_to_none |-> get_param_as_vec(p, "links_to_no", "\n"),
      last_edit_bot |-> get_param_default(p, "edits[bots]", "both"),
      last_edit_anon |-> get_param_default(p, "edits[anons]", "both"),
      last_edit_flagged |-> get_param_default(p, "edits[flagged]", "both"),
      gather_link_count |-> has_param(p, "minlinks") \/ has_param(p, "maxlinks"),
      page_image |-> get_param_default(p, "page_image", "any"),
      page_wikidata_item |-> get_param_default(p, "wikidata_item", "any"),
      ores_type |-> get_param_blank(p, "ores_type"),
      ores_prediction |-> get_param_default(p, "ores_prediction", "any"),
      depth |-> LET g == get_param(p, "depth") IN
                LET parsed == parse_u16(IF g.set THEN g.v ELSE "0") IN
                IF parsed.ok THEN parsed.v ELSE 0,
      cat_pos |-> get_param_as_vec(p, "categories", "\n"),
      cat_neg |-> get_param_as_vec(p, "negcats", "\n"),
      ores_prob_from |-> LET g == get_param(p, "ores_prob_from") IN
                         map_parse_or(g, parse_f32(g.v), 0),
      ores_prob_to |-> LET g == get_param(p, "ores_prob_to") IN
                       map_parse_or(g, parse_f32(g.v), 10),
      redirects |-> get_param_blank(p, "show_redirects"),
      minlinks |-> LET g == get_param(p, "minlinks") IN
                   map_parse_unwrap(g, parse_usize(g.v)),
      maxlinks |-> LET g == get_param(p, "maxlinks") IN
                   map_parse_unwrap(g, parse_usize(g.v)),
      larger |-> LET g == get_param(p, "larger") IN
                 map_parse_unwrap(g, parse_usize(g.v)),
      smaller |-> LET g == get_param(p, "smaller") IN
                  map_parse_unwrap(g, parse_usize(g.v)),
      wiki |-> get_main_wiki(p),
      namespace_ids |-> nsv ]

UnwrapFields == {"minlinks", "maxlinks", "larger", "smaller"}

\* the SourceDatabaseParameters built, or the panic of an unwrap on Err
db_params(p, nsv) ==
    LET ret == db_fields(p, nsv) IN
    IF \E f \in UnwrapFields : ret[f] = PanicNumber
    THEN [status |-> "Panic", ret |-> <<>>]
    ELSE [status |-> "Ok", ret |-> ret]

(***************************************************************************)
(* Platform::combine_results                                               *)
(***************************************************************************)
\* Option::unwrap
unwrap(r) == IF r.status = "Some" THEN r ELSE Panicked

\* results.get(s): the stored value, None when the name is not in the map
source_result(res, s) == IF s \in DOMAIN res THEN res[s] ELSE NoneList

\* a plausible slip: Union(c, None) taken as empty instead of c
match_operands_union_drops_left(c) ==
    CASE c.op = "Union" ->
            IF c.a.op = "None" THEN [arm |-> "sub", c |-> c.b]
            ELSE IF c.b.op = "None" THEN [arm |-> "none", c |-> CNone]
            ELSE [arm |-> "both", c |-> CNone]
      [] c.op = "Intersection" ->
            IF c.a.op = "None" \/ c.b.op = "None" THEN [arm |-> "none", c |-> CNone]
            ELSE [arm |-> "both", c |-> CNone]
      [] c.op = "Not" ->
            IF c.a.op = "None" THEN [arm |-> "none", c |-> CNone]
            ELSE IF c.b.op = "None" THEN [arm |-> "sub", c |-> c.a]
            ELSE [arm |-> "both", c |-> CNone]

\* the arm `match (a.as_ref(), b.as_ref())` selects for a binary node:
\*   "sub"  : the result is combine_results of the sub-expression c
\*   "none" : the result is None
\*   "both" : both operands are evaluated and merged
match_operands(c) ==
    CASE c.op = "Union" ->
            IF c.a.op = "None" THEN [arm |-> "sub", c |-> c.b]
            ELSE IF c.b.op = "None" THEN [arm |-> "sub", c |-> c.a]
            ELSE [arm |-> "both", c |-> CNone]
      [] c.op = "Intersection" ->
            IF c.a.op = "None" \/ c.b.op = "None" THEN [arm |-> "none", c |-> CNone]
            ELSE [arm |-> "both", c |-> CNone]
      [] c.op = "Not" ->
            IF c.a.op = "None" THEN [arm |-> "none", c |-> CNone]
            ELSE IF c.b.op = "None" THEN [arm |-> "sub", c |-> c.a]
            ELSE [arm |-> "both", c |-> CNone]

\* the (c, d) arm: r1 = combine(c).unwrap(); r2 = combine(d); r1.op(r2).ok()?; Some(r1)
merge(op, r1, r2) ==
    IF r1.status = "Panic" \/ r2.status = "Panic" THEN Panicked
    ELSE LET m == CASE op = "Union" -> PageList_union(r1.pages, r2)
                    [] op = "Intersection" -> PageList_intersection(r1.pages, r2)
                    [] op = "Not" -> PageList_difference(r1.pages, r2)
         IN IF m.ok THEN Some(m.pages) ELSE NoneList

RECURSIVE combine_results(_, _)
combine_results(res, c) ==
    CASE c.op = "Source" -> source_result(res, c.s)
      [] c.op = "None" -> NoneList
      [] OTHER ->
            LET m == match_operands(c) IN
            CASE m.arm = "sub" -> combine_results(res, m.c)
              [] m.arm = "none" -> NoneList
              [] m.arm = "both" ->
                    LET r1 == unwrap(combine_results(res, c.a)) IN
                    IF r1.status = "Panic" THEN Panicked
                    ELSE merge(c.op, r1, combine_results(res, c.b))

(***************************************************************************)
(* Platform::get_combination                                               *)
(***************************************************************************)
parse_combination_string(s) == Source("")

\* a plausible slip: the sources joined by Intersection
RECURSIVE fold_sources_intersecting(_, _, _)
fold_sources_intersecting(comb, sources, i) ==
    IF i > Len(sources) THEN comb
    ELSE fold_sources_intersecting(IF comb = CNone THEN Source(sources[i])
                                   ELSE Intersection(Source(sources[i]), comb),
                                   sources, i + 1)

RECURSIVE fold_sources(_, _, _)
fold_sources(comb, sources, i) ==
    IF i > Len(sources) THEN comb
    ELSE fold_sources(IF comb = CNone THEN Source(sources[i])
                      ELSE Union(Source(sources[i]), comb),
                      sources, i + 1)

get_combination(p, sources) ==
    LET c == get_param(p, "source_combination") IN
    IF c.set THEN parse_combination_string(c.v)
    ELSE fold_sources(CNone, sources, 1)

\* let ret = SourceDatabaseParameters { ... }; ret
DbParams ==
    /\ pc = "db_params"
    /\ db' = db_params(params, ns)
    /\ pc' = IF db'.status = "Panic" THEN "panicked" ELSE "done"
    /\ UNCHANGED <<params, ns, query, base, before, serialized, sql, vars_post>>
    /\ UNCHANGED <<vars_run, results, available_sources, combination, result>>

(***************************************************************************)
(* Platform::get_label_sql.  The text of an SQLtuple is kept as the        *)
(* sequence of the pieces it is concatenated from; a placeholder is the    *)
(* piece "?".                                                              *)
(***************************************************************************)
\* Platform::sql_tuple
sql_tuple == [text |-> <<>>, values |-> <<>>]

\* questionmarks.join(",") of n question marks
RECURSIVE questionmarks(_)
questionmarks(n) ==
    IF n = 0 THEN <<>>
    ELSE IF n = 1 THEN <<"?">>
    ELSE <<"?", ",">> \o questionmarks(n - 1)

prep_quote(strings) ==
    LET escaped == trimmed_nonempty(strings) IN
    [text |-> questionmarks(Len(escaped)), values |-> escaped]

\* "cb_labels_" + part1 + suffix
cb_labels(part1, suffix) ==
    CASE part1 = "yes" /\ suffix = "_l" -> "cb_labels_yes_l"
      [] part1 = "yes" /\ suffix = "_a" -> "cb_labels_yes_a"
      [] part1 = "yes" /\ suffix = "_d" -> "cb_labels_yes_d"
      [] part1 = "any" /\ suffix = "_l" -> "cb_labels_any_l"
      [] part1 = "any" /\ suffix = "_a" -> "cb_labels_any_a"
      [] part1 = "any" /\ suffix = "_d" -> "cb_labels_any_d"
      [] part1 = "no" /\ suffix = "_l" -> "cb_labels_no_l"
      [] part1 = "no" /\ suffix = "_a" -> "cb_labels_no_a"
      [] part1 = "no" /\ suffix = "_d" -> "cb_labels_no_d"

label_types(p, part1) ==
    (IF has_param(p, cb_labels(part1, "_l")) THEN <<"label">> ELSE <<>>)
    \o (IF has_param(p, cb_labels(part1, "_a")) THEN <<"alias">> ELSE <<>>)
    \o (IF has_param(p, cb_labels(part1, "_d")) THEN <<"description">> ELSE <<>>)

\* a plausible slip: the kinds are bound before the text is extended, and the
\* placeholders are left out of the text
get_label_sql_helper_no_placeholders(p, ret, part1, part2) ==
    LET types == label_types(p, part1) IN
    IF types = <<>> THEN ret
    ELSE LET tmp == prep_quote(types) IN
         [text |-> ret.text \o <<" AND ", part2, " IN (", ")">>,
          values |-> ret.values \o tmp.values]

get_label_sql_helper(p, ret, part1, part2) ==
    LET types == label_types(p, part1) IN
    IF types = <<>> THEN ret
    ELSE LET tmp == prep_quote(types) IN
         [text |-> ret.text \o <<" AND ", part2, " IN (">> \o tmp.text \o <<")">>,
          values |-> ret.values \o tmp.values]

\* ret.0 += text
add_text(ret, text) == [text |-> ret.text \o text, values |-> ret.values]
\* ret.1.push(s)
push_value(ret, s) == [text |-> ret.text, values |-> Append(ret.values, s)]
\* ret.0 += " AND <column> IN (" + tmp.0 + ")"; ret.1.append(&mut tmp.1)
add_in_list(ret, opening, tmp) ==
    [text |-> ret.text \o <<opening>> \o tmp.text \o <<")">>,
     values |-> ret.values \o tmp.values]

\* lines 287-296, the body of yes.iter().for_each
yes_term(p, ret, s, langs_yes) ==
    LET r1 == push_value(add_text(ret, <<" AND ", "term_text", " LIKE ", "?">>), s) IN
    IF langs_yes # <<>>
    THEN get_label_sql_helper(p,
            add_in_list(r1, " AND term_language IN (", prep_quote(langs_yes)),
            "yes", "term_type")
    ELSE r1

\* lines 301-316, the body of the for_each of the any group (over the yes terms)
any_term(p, ret, s, langs_any, first) ==
    LET r0 == IF first THEN ret ELSE add_text(ret, <<" OR ">>) IN
    LET r1 == push_value(add_text(r0, <<" ( ", "term_text", " LIKE ", "?">>), s) IN
    LET r2 == IF langs_any # <<>>
              THEN get_label_sql_helper(p,
                      add_in_list(r1, " AND term_language IN (", prep_quote(langs_any)),
                      "any", "term_type")
              ELSE r1
    IN add_text(r2, <<")">>)

\* lines 320-333, the body of no.iter().for_each
no_term(p, ret, s, langs_no) ==
    LET r0 == add_text(ret,
                <<" AND NOT EXISTS (SELECT t2.term_full_entity_id FROM wb_terms t2 WHERE",
                  " t2.term_full_entity_id=t1.term_full_entity_id AND t2.term_entity_type='item'",
                  " AND t2.", "term_text", " LIKE ", "?">>) IN
    LET r1 == push_value(r0, s) IN
    LET r2 == IF langs_no # <<>>
              THEN get_label_sql_helper(p,
                      add_in_list(r1, " AND t2.term_language IN (", prep_quote(langs_no)),
                      "no", "t2.term_type")
              ELSE r1
    IN add_text(r2, <<")">>)

RECURSIVE for_each_yes(_, _, _, _, _)
for_each_yes(p, ret, yes, i, langs_yes) ==
    IF i > Len(yes) THEN ret
    ELSE for_each_yes(p, yes_term(p, ret, yes[i], langs_yes), yes, i + 1, langs_yes)

RECURSIVE for_each_any(_, _, _, _, _)
for_each_any(p, ret, yes, i, langs_any) ==
    IF i > Len(yes) THEN ret
    ELSE for_each_any(p, any_term(p, ret, yes[i], langs_any, i = 1), yes, i + 1, langs_any)

RECURSIVE for_each_no(_, _, _, _, _)
for_each_no(p, ret, no, i, langs_no) ==
    IF i > Len(no) THEN ret
    ELSE for_each_no(p, no_term(p, ret, no[i], langs_no), no, i + 1, langs_no)

get_label_sql(p) ==
    LET yes == get_param_as_vec(p, "labels_yes", "\n")
        any == get_param_as_vec(p, "labels_any", "\n")
        no == get_param_as_vec(p, "labels_no", "\n")
    IN
    IF Len(yes) + Len(any) + Len(no) = 0 THEN sql_tuple
    ELSE
    LET langs_yes == get_param_as_vec(p, "langs_labels_yes", ",")
        langs_any == get_param_as_vec(p, "langs_labels_any", ",")
        langs_no == get_param_as_vec(p, "langs_labels_no", ",")
        r0 == [text |->
                 <<"SELECT DISTINCT term_full_entity_id FROM wb_terms t1 WHERE term_entity_type='item'">>,
               values |-> <<>>]
        r1 == for_each_yes(p, r0, yes, 1, langs_yes)
        r2 == IF langs_any # <<>>
              THEN add_text(for_each_any(p, add_text(r1, <<" AND (">>), yes, 1, langs_any),
                            <<")">>)
              ELSE r1
    IN for_each_no(p, r2, no, 1, langs_no)

GetLabelSql ==
    /\ pc = "get_label_sql"
    /\ sql' = get_label_sql(params)
    /\ pc' = "done"
    /\ UNCHANGED <<params, ns, query, base, before, serialized, db, vars_post>>
    /\ UNCHANGED <<vars_run, results, available_sources, combination, result>>

(***************************************************************************)
(* FormParameters (form_parameters.rs)                                     *)
(***************************************************************************)
\* url::form_urlencoded decoding of a key or value, as query_pairs does it
form_urlencoded_decode(raw) ==
    CASE raw = "New+York" -> "New York"
      [] raw = "New%20York" -> "New York"
      [] OTHER -> raw

\* Uri::percent_encode
percent_encode(str) ==
    CASE str = "New York" -> "New%20York"
      [] OTHER -> str

\* the numbers RE = ^ns\[(\d+)\]$ captures in a key, parsed as usize
ns_captures(k) ==
    CASE k = "ns[0]" -> {0}
      [] k = "ns[3]" -> {3}
      [] k = "ns[7]" -> {7}
      [] OTHER -> {}

ns_from_params(p) ==
    UNION {(IF k = "ns" /\ p[k] = "*" THEN {0} ELSE {}) \cup ns_captures(k) :
           k \in {x \in DOMAIN p : p[x] = "1"}}

\* FormParameters::has_param: the key is in the map (blank or not)
contains_key(p, key) == key \in DOMAIN p

\* FormParameters::set_param
set_param(p, key, value) == insert(p, key, value)

fallback(p, key_primary, key_fallback) ==
    IF ~contains_key(p, key_fallback) THEN p
    ELSE IF ~contains_key(p, key_primary) \/ p[key_primary] = ""
    THEN set_param(p, key_primary, p[key_fallback])
    ELSE p

\* if self.has_param(trigger) { self.set_param(key, value) }
rewrite(p, trigger, key, value) ==
    IF contains_key(p, trigger) THEN set_param(p, key, value) ELSE p

\* a plausible slip: the comb_union rewrite left out
legacy_parameters_without_comb_union(fp) ==
    LET p1 == fallback(fp.params, "language", "lang")
        p2 == fallback(p1, "categories", "cats")
        ns1 == IF contains_key(p2, "ns") /\ fp.ns = {} /\ p2["ns"] = "*"
               THEN {0} ELSE fp.ns
        p3 == rewrite(p2, "comb_subset", "combination", "subset")
        p5 == rewrite(p3, "get_q", "wikidata_item", "any")
        p6 == rewrite(p5, "wikidata", "wikidata_item", "any")
        p7 == rewrite(p6, "wikidata_no_item", "wikidata_item", "without")
    IN [params |-> p7, ns |-> ns1]

legacy_parameters(fp) ==
    LET p1 == fallback(fp.params, "language", "lang")
        p2 == fallback(p1, "categories", "cats")
        ns1 == IF contains_key(p2, "ns") /\ fp.ns = {} /\ p2["ns"] = "*"
               THEN {0} ELSE fp.ns
        p3 == rewrite(p2, "comb_subset", "combination", "subset")
        p4 == rewrite(p3, "comb_union", "combination", "union")
        p5 == rewrite(p4, "get_q", "wikidata_item", "any")
        p6 == rewrite(p5, "wikidata", "wikidata_item", "any")
        p7 == rewrite(p6, "wikidata_no_item", "wikidata_item", "without")
    IN [params |-> p7, ns |-> ns1]

\* a plausible slip: the first value of a repeated key kept
RECURSIVE collect_first_wins(_)
collect_first_wins(pairs) ==
    IF pairs = <<>> THEN EmptyMap
    ELSE LET rest == collect_first_wins(Tail(pairs)) IN
         insert(rest, form_urlencoded_decode(Head(pairs)[1]),
                form_urlencoded_decode(Head(pairs)[2]))

\* parsed_url.query_pairs().into_owned().collect::<HashMap>(): the pairs are
\* decoded and inserted in order, a later value replacing an earlier one
RECURSIVE collect(_)
collect(pairs) ==
    IF pairs = <<>> THEN EmptyMap
    ELSE LET n == Len(pairs) IN
         insert(collect(SubSeq(pairs, 1, n - 1)), form_urlencoded_decode(pairs[n][1]),
                form_urlencoded_decode(pairs[n][2]))

\* Url::parse accepts every query of the model; the Ok value is returned
outcome_from_query(q) ==
    LET p == collect(q) IN
    legacy_parameters([params |-> p, ns |-> ns_from_params(p)])

\* a plausible slip: the base's value taken whenever the base has the key
rebase_base_wins(self, b) ==
    LET merged == [k \in DOMAIN self.params \cup DOMAIN b.params |->
                      IF k \in DOMAIN b.params THEN b.params[k] ELSE self.params[k]]
        l == legacy_parameters([params |-> merged, ns |-> self.ns])
    IN [params |-> l.params, ns |-> ns_from_params(l.params)]

rebase(self, b) ==
    LET merged == [k \in DOMAIN self.params \cup DOMAIN b.params |->
                      IF k \in DOMAIN b.params
                      THEN (IF k \in DOMAIN self.params
                            THEN (IF self.params[k] = "" THEN b.params[k]
                                  ELSE self.params[k])
                            ELSE b.params[k])
                      ELSE self.params[k]]
        l == legacy_parameters([params |-> merged, ns |-> self.ns])
    IN [params |-> l.params, ns |-> ns_from_params(l.params)]

\* the items key=value of the string, both sides percent-encoded; they are
\* joined by & in the iteration order of the HashMap, which is unspecified
to_string(p) == {<<percent_encode(k), percent_encode(p[k])>> : k \in DOMAIN p}

OutcomeFromQuery ==
    /\ pc = "request"
    /\ LET fp == outcome_from_query(query) IN
         params' = fp.params /\ ns' = fp.ns
    /\ pc' = "parsed"
    /\ UNCHANGED <<query, base, before, serialized>>
    /\ UNCHANGED <<vars_run, vars_out, vars_post, results, available_sources, combination, result>>

Rebase ==
    /\ pc = "parsed"
    /\ LET fp == rebase([params |-> params, ns |-> ns], base) IN
         params' = fp.params /\ ns' = fp.ns
    /\ before' = params
    /\ pc' = "rebased"
    /\ UNCHANGED <<query, base, serialized>>
    /\ UNCHANGED <<vars_run, vars_out, vars_post, results, available_sources, combination, result>>

Serialize ==
    /\ pc \in {"parsed", "rebased"}
    /\ serialized' = to_string(params)
    /\ pc' = IF pc = "parsed" THEN "parsed_to_string" ELSE "rebased_to_string"
    /\ UNCHANGED <<params, ns, query, base, before>>
    /\ UNCHANGED <<vars_run, vars_out, vars_post, results, available_sources, combination, result>>

(***************************************************************************)
(* FromData for FormParameters (POST).  The body is a text of bytes: the   *)
(* items of `head` joined by &, then `copies` repetitions of the item      *)
(* `filler` (each led by &), then the first `rest` bytes of one more       *)
(* repetition.  A body of FORM_SIZE_LIMIT bytes and more is so written     *)
(* down without its bytes being enumerated.                                *)
(***************************************************************************)
FORM_SIZE_LIMIT == 1024 * 1024 * 50

\* str::len, in bytes, of the keys and values a body is written with
byte_len(s) ==
    CASE s = "" -> 0
      [] s \in {"*", "1", "q", "x", "&", "="} -> 1
      [] s \in {"en", "ns", "é"} -> 2
      [] s = "lang" -> 4
      [] s = "ns[3]" -> 5
      [] s = "comb_union" -> 10

RECURSIVE SumLen(_)
SumLen(chars) == IF chars = <<>> THEN 0 ELSE byte_len(Head(chars)) + SumLen(Tail(chars))

\* the characters of one repetition of the filler item: & key = value, the
\* key and the value being one character each
filler_chars(f) == <<"&", f[1], "=", f[2]>>

\* the bytes of head: key=value items joined by &
RECURSIVE head_len(_)
head_len(head) ==
    IF head = <<>> THEN 0
    ELSE byte_len(Head(head)[1]) + 1 + byte_len(Head(head)[2])
         + (IF Len(head) > 1 THEN 1 + head_len(Tail(head)) ELSE 0)

text_len(t) == head_len(t.head) + t.copies * SumLen(filler_chars(t.filler)) + t.rest

\* Read::take(limit): the stream ends after at most `limit` bytes
take(t, limit) ==
    IF text_len(t) <= limit THEN t
    ELSE LET room == limit - head_len(t.head)
             one == SumLen(filler_chars(t.filler))
         IN [t EXCEPT !.copies = room \div one, !.rest = room % one]

\* the bytes of the text end on a character boundary
is_utf8(t) ==
    \E n \in 0 .. 4 : SumLen(SubSeq(filler_chars(t.filler), 1, n)) = t.rest

\* the key=value items form_urlencoded finds in the string, in order.  An
\* empty item is skipped, an item without = has the value "".  The
\* repetitions of the filler are one and the same item: it is listed once.
query_pairs(t) ==
    t.head
    \o (IF t.copies > 0 THEN <<t.filler>> ELSE <<>>)
    \o (IF t.rest > byte_len("&") THEN <<<<t.filler[1], "">>>> ELSE <<>>)

Success(v) == [status |-> "Success", value |-> v]
Failure(code) == [status |-> "Failure", value |-> code]

\* a plausible slip: the stream read to its end, the limit not applied
transform_unlimited(d, io_error) ==
    IF io_error \/ ~is_utf8(d)
    THEN Failure("InternalServerError")
    ELSE Success(d)

\* read_to_string fails on an I/O error and on bytes that are not UTF-8
transform(d, io_error) ==
    LET stream == take(d, FORM_SIZE_LIMIT) IN
    IF io_error \/ ~is_utf8(stream)
    THEN Failure("InternalServerError")
    ELSE Success(stream)

from_data(o) ==
    IF o.status = "Failure" THEN o
    ELSE Success(outcome_from_query(query_pairs(o.value)))

Transform ==
    /\ pc = "post"
    /\ \E io_error \in BOOLEAN : outcome' = transform(data, io_error)
    /\ pc' = "transformed"
    /\ UNCHANGED <<params, data, results, available_sources, combination, result>>
    /\ UNCHANGED <<vars_form, vars_run, vars_out>>

FromData ==
    /\ pc = "transformed"
    /\ outcome' = from_data(outcome)
    /\ IF outcome.status = "Success"
       THEN /\ query' = query_pairs(outcome.value)
            /\ params' = outcome_from_query(query_pairs(outcome.value)).params
            /\ ns' = outcome_from_query(query_pairs(outcome.value)).ns
       ELSE UNCHANGED <<query, params, ns>>
    /\ pc' = "posted"
    /\ UNCHANGED <<data, base, before, serialized>>
    /\ UNCHANGED <<results, available_sources, combination, result>>
    /\ UNCHANGED <<vars_run, vars_out>>

(***************************************************************************)
(* Platform::run                                                           *)
(***************************************************************************)
\* the names of the sources, in the order run pushes them (lines 61-66), and the
\* fallback (line 70)
PrimarySources == <<"categories", "sparql", "manual", "pagepile", "search", "wikidata">>
FallbackSources == <<"labels">>

\* every candidate taken as able to run, whatever its can_run says
eligible_unchecked(can, source) == TRUE

\* source.can_run(&self), as run asks it of a candidate (lines 68, 71, 80, 87)
eligible(can, source) == can[source]

\* candidate_sources.iter().any(|source| source.can_run(&self))
any_can_run(sources, can) == \E i \in 1 .. Len(sources) : eligible(can, sources[i])

\* lines 60-76: the candidates are built (db_params is evaluated for the database
\* source), the fallback replaces them when none can run, and run returns when
\* the fallback cannot run either
RunBuildCandidates ==
    /\ pc = "run"
    /\ IF db_params(params, ns).status = "Panic"
       THEN /\ pc' = "panicked"
            /\ UNCHANGED <<candidate_sources, next_source, results>>
       ELSE IF any_can_run(PrimarySources, can_run)
       THEN /\ candidate_sources' = PrimarySources
            /\ results' = EmptyMap
            /\ next_source' = 1
            /\ pc' = "run_sources"
       ELSE IF any_can_run(FallbackSources, can_run)
       THEN /\ candidate_sources' = FallbackSources
            /\ results' = EmptyMap
            /\ next_source' = 1
            /\ pc' = "run_sources"
       ELSE /\ candidate_sources' = FallbackSources
            /\ pc' = "done"
            /\ UNCHANGED <<next_source, results>>
    /\ UNCHANGED <<params, can_run, ran, returned, available_sources, combination, result>>
    /\ UNCHANGED <<vars_form, vars_out, vars_post>>

\* lines 79-83, one iteration of the loop: the source is run if it can run, and
\* what it returns is stored under its name
RunSource ==
    /\ pc = "run_sources"
    /\ next_source <= Len(candidate_sources)
    /\ LET source == candidate_sources[next_source] IN
         IF eligible(can_run, source)
         THEN \E value \in OptionPageList :
                /\ results' = insert(results, source, value)
                /\ ran' = [ran EXCEPT ![source] = @ + 1]
                /\ returned' = Append(returned, <<source, value>>)
         ELSE UNCHANGED <<results, ran, returned>>
    /\ next_source' = next_source + 1
    /\ pc' = IF next_source = Len(candidate_sources) THEN "get_combination"
             ELSE "run_sources"
    /\ UNCHANGED <<params, can_run, candidate_sources, available_sources, combination,
                   result>>
    /\ UNCHANGED <<vars_form, vars_out, vars_post>>

(***************************************************************************)
(* Platform::run, its last two steps                                       *)
(***************************************************************************)
\* the outcome of the operation: the result stored, or the panic that ended it
Outcome == IF pc = "panicked" THEN Panicked ELSE result

\* lines 85-90: available_sources and the combination built from them
RunGetCombination ==
    /\ pc = "get_combination"
    /\ available_sources' = SelectSeq(candidate_sources, LAMBDA s : eligible(can_run, s))
    /\ combination' = get_combination(params, available_sources')
    /\ pc' = "combine"
    /\ UNCHANGED <<params, results, result>>
    /\ UNCHANGED <<vars_form, vars_run, vars_out, vars_post>>

\* line 94: self.result = self.combine_results(&mut results, &combination)
RunCombineResults ==
    /\ pc = "combine"
    /\ LET r == combine_results(results, combination) IN
         IF r.status = "Panic"
         THEN pc' = "panicked" /\ result' = result
         ELSE pc' = "done" /\ result' = r
    /\ UNCHANGED <<params, results, available_sources, combination>>
    /\ UNCHANGED <<vars_form, vars_run, vars_out, vars_post>>

(***************************************************************************)
(* SpecCombine: get_combination and combine_results on every input.        *)
(* Either a Combination tree and a result map are given (as a parsed       *)
(* source_combination would give them), or a list of eligible sources and  *)
(* their results, from which the default combination is built.             *)
(***************************************************************************)
EvalNames == {"categories", "sparql"}
ListNames == {"categories", "sparql", "manual"}
AllSourceNames ==
    {"categories", "sparql", "manual", "pagepile", "search", "wikidata", "labels"}

Leaves == {CNone} \cup {Source(s) : s \in EvalNames}

RECURSIVE TreesOfSize(_)
TreesOfSize(n) ==
    IF n = 0 THEN Leaves
    ELSE UNION {UNION {{[op |-> o, a |-> x, b |-> y] :
                            x \in TreesOfSize(i), y \in TreesOfSize(n - 1 - i)} :
                       i \in 0 .. (n - 1)} : o \in BinaryOps}
Trees == UNION {TreesOfSize(n) : n \in 0 .. MaxOps}

ResultMaps(names) == UNION {[d -> OptionPageList] : d \in SUBSET names}

DistinctSeqs(S) ==
    UNION {{q \in [1 .. n -> S] : \A i, j \in 1 .. n : i # j => q[i] # q[j]} :
           n \in 0 .. Cardinality(S)}
Reorderings(q) == {p \in DistinctSeqs(Range(q)) : Len(p) = Len(q)}

SourceCombinationParams ==
    {EmptyMap, [k \in {"source_combination"} |-> ""],
     [k \in {"source_combination"} |-> "categories"]}

IdleForm ==
    /\ ns = {} /\ query = <<>> /\ before = EmptyMap
    /\ base = [params |-> EmptyMap, ns |-> {}]
    /\ serialized = {}
IdleOut == db = [status |-> "Idle", ret |-> <<>>] /\ sql = [text |-> <<>>, values |-> <<>>]
NoData == [head |-> <<>>, filler |-> <<"x", "1">>, copies |-> 0, rest |-> 0]
IdlePost == data = NoData /\ outcome = [status |-> "Idle", value |-> ""]

InitCombine ==
    /\ \/ /\ pc = "combine"
          /\ combination \in Trees
          /\ results \in ResultMaps(EvalNames)
          /\ candidate_sources = <<>>
          /\ params = EmptyMap
       \/ /\ pc = "get_combination"
          /\ combination = CNone
          /\ candidate_sources \in DistinctSeqs(ListNames)
          /\ results \in [Range(candidate_sources) -> OptionPageList]
          /\ params \in SourceCombinationParams
    /\ can_run = [s \in AllSourceNames |-> TRUE]
    /\ next_source = 0
    /\ ran = [s \in AllSourceNames |-> 0]
    /\ returned = <<>>
    /\ available_sources = <<>>
    /\ result = NoneList
    /\ IdleForm /\ IdleOut /\ IdlePost

NextCombine == RunGetCombination \/ RunCombineResults
SpecCombine == InitCombine /\ [][NextCombine]_vars

\* the combination was built by get_combination's default branch
DefaultBuilt ==
    /\ pc \in {"done", "panicked"}
    /\ available_sources # <<>>
    /\ ~has_param(params, "source_combination")

\* C1: combination evaluation never fails: combine_results returns a present
\* result or None for every tree and every result map; a binary node with no
\* None operand whose left side evaluates to None yields None, not an abort.
C1_EvaluateNeverFails ==
    /\ pc # "panicked"
    /\ (/\ pc = "done"
        /\ combination.op \in BinaryOps
        /\ combination.a.op # "None" /\ combination.b.op # "None"
        /\ combine_results(results, combination.a) = NoneList) => result = NoneList

\* C2: the default combination is order-independent: over every permutation of
\* the eligible names, building the default combination and evaluating it
\* gives the outcome that was obtained.
C2_DefaultOrderIndependent ==
    DefaultBuilt =>
        \A p \in Reorderings(available_sources) :
            combine_results(results, get_combination(params, p)) = Outcome

\* C3: the absorption rules of None operands: Union(None,X) and Union(X,None)
\* evaluate to what X evaluates to; Intersection with a None operand and
\* Not(None,X) evaluate to None; Not(X,None) evaluates to what X evaluates to;
\* None evaluates to None.
C3_Absorption ==
    pc \in {"done", "panicked"} =>
        LET c == combination IN
        /\ (c.op = "Union" /\ c.a.op = "None") => Outcome = combine_results(results, c.b)
        /\ (c.op = "Union" /\ c.b.op = "None") => Outcome = combine_results(results, c.a)
        /\ (c.op = "Intersection" /\ (c.a.op = "None" \/ c.b.op = "None"))
                => Outcome = NoneList
        /\ (c.op = "Not" /\ c.a.op = "None") => Outcome = NoneList
        /\ (c.op = "Not" /\ c.b.op = "None") => Outcome = combine_results(results, c.a)
        /\ (c.op = "None") => Outcome = NoneList

\* a Union with a None right operand was evaluated to the (present, non-empty)
\* result of its left operand, itself a binary node
C3_Witness ==
    /\ pc = "done"
    /\ combination.op = "Union" /\ combination.b.op = "None"
    /\ combination.a.op \in BinaryOps
    /\ result.status = "Some" /\ result.pages # {}

(***************************************************************************)
(* Spec: Platform::run on a new Platform, for every eligibility of the     *)
(* sources and everything the sources may return.                          *)
(***************************************************************************)
RunParams ==
    {EmptyMap, [k \in {"source_combination"} |-> "categories"],
     [k \in {"source_combination"} |-> ""], [k \in {"minlinks"} |-> "abc"]}

Init ==
    /\ pc = "run"
    /\ params \in RunParams
    /\ can_run \in [AllSourceNames -> BOOLEAN]
    /\ candidate_sources = <<>>
    /\ next_source = 0
    /\ ran = [s \in AllSourceNames |-> 0]
    /\ returned = <<>>
    /\ results = EmptyMap
    /\ available_sources = <<>>
    /\ combination = CNone
    /\ result = NoneList
    /\ IdleForm /\ IdleOut /\ IdlePost

Next == RunBuildCandidates \/ RunSource \/ RunGetCombination \/ RunCombineResults
Spec == Init /\ [][Next]_vars

NoSourceEligible == \A s \in AllSourceNames : ~can_run[s]

\* C4: when no primary candidate and not the fallback can run, the final result
\* is absent and run is invoked on no source.
C4_NothingEligibleNothingRun ==
    (NoSourceEligible /\ pc # "run") =>
        /\ pc \in {"done", "panicked"}
        /\ result = NoneList
        /\ \A s \in AllSourceNames : ran[s] = 0
        /\ results = EmptyMap

\* run has returned with no source eligible
C4_Witness ==
    /\ NoSourceEligible
    /\ pc = "done"
    /\ candidate_sources = FallbackSources

\* the candidates of the active list that can run
EligibleCandidates ==
    {candidate_sources[i] : i \in {j \in 1 .. Len(candidate_sources) :
                                      can_run[candidate_sources[j]]}}

\* how often run was invoked on the source
RunsOf(s) == Cardinality({i \in 1 .. Len(returned) : returned[i][1] = s})

LoopDone == pc \in {"get_combination", "combine", "done", "panicked"}

\* C12: when run executes a backend, the results map ends up with an entry for
\* exactly the eligible candidates of the active list, each holding the value
\* its run returned (None included); every eligible candidate is run exactly
\* once and no other is run, all before the combination is built and
\* evaluated; the fallback is run only when no primary candidate can run.
C12_RunsExactlyEligible ==
    /\ (returned # <<>> /\ LoopDone) =>
          /\ DOMAIN results = EligibleCandidates
          /\ \A s \in AllSourceNames :
                RunsOf(s) = IF s \in EligibleCandidates THEN 1 ELSE 0
          /\ \A i \in 1 .. Len(returned) : results[returned[i][1]] = returned[i][2]
    /\ ~LoopDone =>
          /\ combination = CNone /\ available_sources = <<>> /\ result = NoneList
          /\ \A s \in AllSourceNames : RunsOf(s) <= 1
    /\ (\E i \in 1 .. Len(returned) : returned[i][1] \in Range(FallbackSources)) =>
          \A s \in Range(PrimarySources) : ~can_run[s]

\* run has returned after two of the primary candidates were run, one of them
\* returning None, a third candidate being unable to run
C12_Witness ==
    /\ pc = "done"
    /\ can_run["categories"] /\ can_run["sparql"] /\ ~can_run["manual"]
    /\ Len(returned) = 2
    /\ DOMAIN results = {"categories", "sparql"}
    /\ results["sparql"] = NoneList
    /\ results["categories"] = Some({1})

\* every eligible candidate was run and returned a present result set
EveryEligiblePresent ==
    \A s \in EligibleCandidates :
        \E i \in 1 .. Len(returned) :
            returned[i][1] = s /\ returned[i][2].status = "Some"

\* C13: with no source_combination supplied (unset or blank), at least one
\* candidate eligible and every eligible source's run returning a present
\* result set, run ends with a present result that is the set union of what
\* the eligible sources returned.
C13_DefaultMergeIsUnion ==
    ( /\ pc \in {"done", "panicked"}
      /\ ~has_param(params, "source_combination")
      /\ EligibleCandidates # {}
      /\ EveryEligiblePresent )
    => /\ pc = "done"
       /\ result = Some(UNION {returned[i][2].pages : i \in 1 .. Len(returned)})
       /\ {returned[i][1] : i \in 1 .. Len(returned)} = EligibleCandidates

\* run has returned the union of what three eligible sources returned
C13_Witness ==
    /\ pc = "done"
    /\ params = EmptyMap
    /\ returned = << <<"categories", Some({1})>>, <<"manual", Some({})>>,
                     <<"wikidata", Some({2})>> >>
    /\ result = Some({1, 2})

(***************************************************************************)
(* SpecForm: a query is parsed, the outcome is possibly rebased on the     *)
(* outcome of another query, and the parameters are written back.          *)
(***************************************************************************)
MaxPairs == 2           \* key=value items of the query

QueryPairs ==
    { <<"lang", "en">>, <<"language", "">>, <<"language", "de">>,
      <<"combination", "union">>, <<"comb_subset", "1">>, <<"comb_union", "">>,
      <<"wikidata_item", "with">>, <<"wikidata_no_item", "1">>, <<"get_q", "1">>,
      <<"wikidata", "1">>, <<"ns", "*">>, <<"ns[3]", "1">>, <<"ns[0]", "0">>,
      <<"cats", "Art">>, <<"foo", "New+York">>, <<"foo", "baz">>, <<"foo", "">> }

Queries == UNION {[1 .. n -> QueryPairs] : n \in 0 .. MaxPairs}

\* the queries the base was parsed from
BaseQueries ==
    {<<>>} \cup {<<x>> : x \in QueryPairs}
    \cup { <<<<"comb_subset", "1">>, <<"comb_union", "1">>>>,
           <<<<"lang", "en">>, <<"language", "de">>>>,
           <<<<"ns", "*">>, <<"ns[7]", "1">>>>,
           <<<<"foo", "bar">>, <<"combination", "subset">>>> }

IdleRun ==
    /\ can_run = [s \in AllSourceNames |-> FALSE]
    /\ candidate_sources = <<>> /\ next_source = 0
    /\ ran = [s \in AllSourceNames |-> 0]
    /\ returned = <<>>
    /\ results = EmptyMap /\ available_sources = <<>>
    /\ combination = CNone /\ result = NoneList

InitForm ==
    /\ pc = "request"
    /\ query \in Queries
    /\ \E bq \in BaseQueries : base = outcome_from_query(bq)
    /\ params = EmptyMap
    /\ ns = {}
    /\ before = EmptyMap
    /\ serialized = {}
    /\ IdleRun /\ IdleOut /\ IdlePost

NextForm == OutcomeFromQuery \/ Rebase \/ Serialize
SpecForm == InitForm /\ [][NextForm]_vars

AfterParseOrRebase == pc \in {"parsed", "rebased"}

\* the keys legacy_parameters may set whatever their value was
RewriteTargets == {"combination", "wikidata_item"}
RewriteTriggers == {"comb_subset", "comb_union", "get_q", "wikidata", "wikidata_no_item"}

\* C5: rebase never overwrites a present non-blank value, its legacy
\* normalization included, and a key that was absent or blank and is in the
\* base has the base's value afterwards.
C5_RebaseNeverOverwrites ==
    pc = "rebased" =>
        \A k \in DOMAIN before \cup DOMAIN base.params :
            /\ (k \in DOMAIN before /\ before[k] # "")
                    => (k \in DOMAIN params /\ params[k] = before[k])
            /\ ((k \notin DOMAIN before \/ before[k] = "") /\ k \in DOMAIN base.params)
                    => (k \in DOMAIN params /\ params[k] = base.params[k])

\* C5 as amended: the same, except that a present non-blank combination or
\* wikidata_item is kept only when no rewrite trigger key is in the merged map.
C5_RebaseKeepsUnlessRewritten ==
    pc = "rebased" =>
        \A k \in DOMAIN before \cup DOMAIN base.params :
            /\ (/\ k \in DOMAIN before /\ before[k] # ""
                /\ (k \in RewriteTargets => RewriteTriggers \cap DOMAIN params = {}))
                    => (k \in DOMAIN params /\ params[k] = before[k])
            /\ ((k \notin DOMAIN before \/ before[k] = "") /\ k \in DOMAIN base.params)
                    => (k \in DOMAIN params /\ params[k] = base.params[k])

\* a rebase kept a non-blank value the base also had, and adopted a value for
\* a blank one
C5_Witness ==
    /\ pc = "rebased"
    /\ \E k \in DOMAIN before \cap DOMAIN base.params :
            before[k] # "" /\ base.params[k] # before[k] /\ params[k] = before[k]
    /\ \E k \in DOMAIN before \cap DOMAIN base.params :
            before[k] = "" /\ base.params[k] # "" /\ params[k] = base.params[k]

\* the key of namespace n
NsKey(n) == CASE n = 0 -> "ns[0]" [] n = 3 -> "ns[3]" [] n = 7 -> "ns[7]"
NsIds == {0, 3, 7}
SelectedNamespaces(p) == {n \in NsIds : NsKey(n) \in DOMAIN p /\ p[NsKey(n)] = "1"}

\* C6: after every parse and every rebase the namespace set is the set of n
\* with ns[n]=1, except that it is {0} when that set is empty and ns=* is set.
C6_NamespaceSet ==
    AfterParseOrRebase =>
        ns = IF SelectedNamespaces(params) = {} /\ "ns" \in DOMAIN params
                /\ params["ns"] = "*"
             THEN {0} ELSE SelectedNamespaces(params)

DecodedPairs(q) ==
    {<<form_urlencoded_decode(q[i][1]), form_urlencoded_decode(q[i][2])>> :
        i \in 1 .. Len(q)}
DecodedItems(items) ==
    {<<form_urlencoded_decode(x[1]), form_urlencoded_decode(x[2])>> : x \in items}

RECURSIVE LastValue(_, _)
LastValue(q, k) ==
    IF form_urlencoded_decode(q[Len(q)][1]) = k
    THEN form_urlencoded_decode(q[Len(q)][2])
    ELSE LastValue(SubSeq(q, 1, Len(q) - 1), k)

QueryKeys(q) == {x[1] : x \in DecodedPairs(q)}
LegacyTargets == {"language", "categories", "combination", "wikidata_item"}
LegacySources == {"lang", "cats"} \cup RewriteTriggers

Has(k) == k \in DOMAIN params
Is(k, v) == k \in DOMAIN params /\ params[k] = v

\* C8: after every parse and rebase: comb_subset present gives combination =
\* subset, comb_union present gives combination = union, get_q or wikidata
\* present gives wikidata_item = any, wikidata_no_item present gives
\* wikidata_item = without.
C8_LegacyRewrites ==
    AfterParseOrRebase =>
        /\ Has("comb_subset") => Is("combination", "subset")
        /\ Has("comb_union") => Is("combination", "union")
        /\ (Has("get_q") \/ Has("wikidata")) => Is("wikidata_item", "any")
        /\ Has("wikidata_no_item") => Is("wikidata_item", "without")

\* C8 as amended: a later rewrite of the same key wins: comb_subset decides
\* only when comb_union is absent, get_q and wikidata only when
\* wikidata_no_item is absent.
C8_LegacyRewritesLaterWins ==
    AfterParseOrRebase =>
        /\ (Has("comb_subset") /\ ~Has("comb_union")) => Is("combination", "subset")
        /\ Has("comb_union") => Is("combination", "union")
        /\ ((Has("get_q") \/ Has("wikidata")) /\ ~Has("wikidata_no_item"))
                => Is("wikidata_item", "any")
        /\ Has("wikidata_no_item") => Is("wikidata_item", "without")

\* a rebase brought in comb_union beside an own comb_subset: the combination
\* that was subset is union now
C8_Witness ==
    /\ pc = "rebased"
    /\ Has("comb_union") /\ "comb_union" \notin DOMAIN before
    /\ Has("comb_subset")
    /\ "combination" \in DOMAIN before /\ before["combination"] = "subset"
    /\ Is("combination", "union")

(***************************************************************************)
(* SpecDb: db_params on every parameter map of up to MaxSetParams keys.    *)
(***************************************************************************)
MaxSetParams == 2       \* keys set in the parameter map

NumericKeys ==
    {"depth", "max_age", "minlinks", "maxlinks", "larger", "smaller",
     "ores_prob_from", "ores_prob_to"}
DbKeys == NumericKeys \cup {"combination", "language", "project"}
DbValues(k) ==
    CASE k \in NumericKeys -> {"", "5", "-1", "70000", "0.5", "abc"}
      [] k = "combination" -> {"union", "subset"}
      [] k = "language" -> {"en"}
      [] k = "project" -> {"wikipedia", "wikisource"}

RECURSIVE DbParamMaps(_)
DbParamMaps(n) ==
    IF n = 0 THEN {EmptyMap}
    ELSE LET smaller == DbParamMaps(n - 1) IN
         smaller \cup UNION {UNION {{insert(m, k, v) : v \in DbValues(k)} :
                                    k \in DbKeys \ DOMAIN m} : m \in smaller}

InitDb ==
    /\ pc = "db_params"
    /\ params \in DbParamMaps(MaxSetParams)
    /\ ns \in {{}, {0, 3}}
    /\ query = <<>> /\ before = EmptyMap /\ serialized = {}
    /\ base = [params |-> EmptyMap, ns |-> {}]
    /\ IdleRun /\ IdleOut /\ IdlePost

NextDb == DbParams
SpecDb == InitDb /\ [][NextDb]_vars

\* the default a numeric field takes when its value does not parse
Unparsable(k) ==
    /\ has_param(params, k)
    /\ ~(CASE k = "depth" -> parse_u16(params[k]).ok
           [] k = "max_age" -> parse_i64(params[k]).ok
           [] k \in {"ores_prob_from", "ores_prob_to"} -> parse_f32(params[k]).ok
           [] OTHER -> parse_usize(params[k]).ok)
NumericDefault(k) ==
    CASE k = "depth" -> 0
      [] k = "ores_prob_to" -> SomeNumber(10)
      [] OTHER -> SomeNumber(0)

\* C9: db_params never fails: with a numeric field set to a non-blank value
\* that is no number, the build completes and that field takes its default.
C9_DbParamsNeverFails ==
    /\ pc # "panicked"
    /\ pc = "done" =>
          \A k \in NumericKeys : Unparsable(k) => db.ret[k] = NumericDefault(k)

(***************************************************************************)
(* SpecLabel: get_label_sql on the label parameters.                       *)
(***************************************************************************)
MaxTerms == 2           \* terms in labels_yes and in labels_no

\* values of labels_yes / labels_no with up to n terms (and pieces that are
\* blank once trimmed)
LabelsYesValues(n) ==
    {"", " "} \cup (IF n >= 1 THEN {"Cat"} ELSE {})
    \cup (IF n >= 2 THEN {"Cat\nDog", " Cat \n\nDog"} ELSE {})
    \cup (IF n >= 3 THEN {"Cat\nDog\nEel"} ELSE {})
LabelsNoValues(n) ==
    {""} \cup (IF n >= 1 THEN {"Rat"} ELSE {})
    \cup (IF n >= 2 THEN {"Rat\nBat"} ELSE {})
    \cup (IF n >= 3 THEN {"Rat\nBat\nGnat"} ELSE {})

Toggles ==
    {cb_labels(part1, suffix) : part1 \in {"yes", "any", "no"}, suffix \in {"_l", "_a", "_d"}}

\* every choice of the yes kinds, and none, one, two or all of the any and no kinds
ToggleSets ==
    {yes_on \cup any_on \cup no_on :
        yes_on \in SUBSET {cb_labels("yes", x) : x \in {"_l", "_a", "_d"}},
        any_on \in {{}, {"cb_labels_any_l"}, {"cb_labels_any_a", "cb_labels_any_d"},
                    {"cb_labels_any_l", "cb_labels_any_a", "cb_labels_any_d"}},
        no_on \in {{}, {"cb_labels_no_d"}, {"cb_labels_no_l", "cb_labels_no_a"},
                   {"cb_labels_no_l", "cb_labels_no_a", "cb_labels_no_d"}}}

LabelParams ==
    {[k \in {"labels_yes", "labels_any", "labels_no", "langs_labels_yes",
             "langs_labels_any", "langs_labels_no"} \cup on |->
        CASE k = "labels_yes" -> y
          [] k = "labels_any" -> a
          [] k = "labels_no" -> n
          [] k = "langs_labels_yes" -> ly
          [] k = "langs_labels_any" -> la
          [] k = "langs_labels_no" -> ln
          [] OTHER -> "1"] :
     y \in LabelsYesValues(MaxTerms), a \in {"", "Ant"}, n \in LabelsNoValues(MaxTerms),
     ly \in {"", "en", "en, ,de"}, la \in {"", "fr,it"}, ln \in {"", "nl, en"},
     on \in ToggleSets}

InitLabel ==
    /\ pc = "get_label_sql"
    /\ params \in LabelParams
    /\ ns = {} /\ query = <<>> /\ before = EmptyMap /\ serialized = {}
    /\ base = [params |-> EmptyMap, ns |-> {}]
    /\ IdleRun /\ IdleOut /\ IdlePost

NextLabel == GetLabelSql
SpecLabel == InitLabel /\ [][NextLabel]_vars

\* the piece that opens the placeholder at position j: the nearest piece
\* before it that is neither a placeholder nor a comma
RECURSIVE Opener(_, _)
Opener(text, j) ==
    IF j = 0 THEN ""
    ELSE IF text[j] \in {"?", ","} THEN Opener(text, j - 1)
    ELSE text[j]

\* what a placeholder stands for, from the piece that opens it
OpenerKind(t) ==
    CASE t = " LIKE " -> "term"
      [] t \in {" AND term_language IN (", " AND t2.term_language IN ("} -> "language"
      [] t = " IN (" -> "kind"
      [] OTHER -> "none"

\* what the placeholders of the text stand for, from left to right
PlaceholderKinds(text) ==
    SelectSeq([j \in 1 .. Len(text) |->
                  IF text[j] = "?" THEN OpenerKind(Opener(text, j)) ELSE "no placeholder"],
              LAMBDA k : k # "no placeholder")

TermKinds == {"label", "alias", "description"}
Languages == {"en", "de", "fr", "it", "nl"}
ValueKind(v) ==
    IF v \in TermKinds THEN "kind" ELSE IF v \in Languages THEN "language" ELSE "term"

\* the values of one term of a group: the term, the languages, the kinds
GroupValues(term, langs, kinds) ==
    <<term>> \o (IF langs # <<>> THEN langs \o kinds ELSE <<>>)

RECURSIVE TermsValues(_, _, _)
TermsValues(terms, langs, kinds) ==
    IF terms = <<>> THEN <<>>
    ELSE GroupValues(Head(terms), langs, kinds) \o TermsValues(Tail(terms), langs, kinds)

\* the bound values in the order of the claim: per yes term; the any group
\* (over the yes terms, when any languages are given); per no term
ExpectedValues(p) ==
    LET yes == get_param_as_vec(p, "labels_yes", "\n")
        any == get_param_as_vec(p, "labels_any", "\n")
        no == get_param_as_vec(p, "labels_no", "\n")
        langs_any == get_param_as_vec(p, "langs_labels_any", ",")
    IN IF yes = <<>> /\ any = <<>> /\ no = <<>> THEN <<>>
       ELSE TermsValues(yes, get_param_as_vec(p, "langs_labels_yes", ","),
                        label_types(p, "yes"))
            \o (IF langs_any # <<>>
                THEN TermsValues(yes, langs_any, label_types(p, "any")) ELSE <<>>)
            \o TermsValues(no, get_param_as_vec(p, "langs_labels_no", ","),
                           label_types(p, "no"))

\* C10: the fragment has as many placeholders as bound values, the i-th bound
\* value is the value of the i-th placeholder (a term for a LIKE, a language
\* for a language list, a kind for a kind list), in the order of the groups;
\* yes = [Cat] with langs_yes = [en] and nothing else set binds exactly
\* [Cat, en].
C10_PlaceholdersMatchValues ==
    (pc = "done" /\ "labels_yes" \in DOMAIN params) =>
        LET kinds == PlaceholderKinds(sql.text) IN
        /\ Len(kinds) = Len(sql.values)
        /\ \A i \in 1 .. Len(kinds) :
              i <= Len(sql.values) => kinds[i] = ValueKind(sql.values[i])
        /\ sql.values = ExpectedValues(params)
        /\ (/\ params["labels_yes"] = "Cat" /\ params["langs_labels_yes"] = "en"
            /\ \A k \in DOMAIN params \ {"labels_yes", "langs_labels_yes"} :
                    params[k] = "")
                => (sql.values = <<"Cat", "en">> /\ kinds = <<"term", "language">>)

\* a fragment with yes, any and no parts, each with languages and kinds
C10_Witness ==
    /\ pc = "done" /\ "labels_yes" \in DOMAIN params
    /\ Len(get_param_as_vec(params, "labels_yes", "\n")) = 2
    /\ params["labels_no"] = "Rat\nBat"
    /\ params["langs_labels_yes"] = "en, ,de"
    /\ params["langs_labels_any"] = "fr,it"
    /\ params["langs_labels_no"] = "nl, en"
    /\ label_types(params, "yes") = <<"label", "description">>
    /\ label_types(params, "any") = <<"alias", "description">>
    /\ label_types(params, "no") = <<"description">>
    /\ Len(sql.values) = 28

(***************************************************************************)
(* SpecPost: a POST request with a body below, at and above                *)
(* FORM_SIZE_LIMIT is turned into FormParameters.                          *)
(***************************************************************************)
MaxCopies == 2          \* repetitions of the filler in a short body

PostPairs ==
    { <<"lang", "en">>, <<"ns", "*">>, <<"q", "1">>, <<"comb_union", "">>,
      <<"ns[3]", "1">> }
\* the key and the value of a filler are one character each
Fillers == { <<"x", "1">>, <<"é", "1">> }

PostHeads == UNION {[1 .. n -> PostPairs] : n \in 0 .. MaxPairs}

\* the numbers of repetitions with which the body ends just below, at and
\* just above the limit
CopiesAtLimit(head, f) ==
    LET k == (FORM_SIZE_LIMIT - head_len(head)) \div SumLen(filler_chars(f)) IN
    {k - 1, k, k + 1, k + 2}

Bodies ==
    {[head |-> h, filler |-> f, copies |-> c, rest |-> 0] :
        h \in PostHeads, f \in Fillers, c \in 0 .. MaxCopies}
    \cup UNION {{[head |-> h, filler |-> f, copies |-> c, rest |-> 0] :
                    c \in CopiesAtLimit(h, f)} : h \in PostHeads, f \in Fillers}

InitPost ==
    /\ pc = "post"
    /\ data \in Bodies
    /\ outcome = [status |-> "Idle", value |-> ""]
    /\ params = EmptyMap
    /\ IdleForm /\ IdleRun /\ IdleOut

NextPost == Transform \/ FromData
SpecPost == InitPost /\ [][NextPost]_vars

Oversized == text_len(data) > FORM_SIZE_LIMIT

\* C11: a POST request whose body is longer than FORM_SIZE_LIMIT ends in a
\* failure outcome; it is never accepted with the parameters of its first
\* FORM_SIZE_LIMIT bytes.
C11_OversizedBodyRejected ==
    (Oversized /\ pc = "posted") => outcome.status = "Failure"

====
